---- MODULE Spec2Model ----
(***************************************************************************)
(* A model of the WordPiece tokenizer of src/src/lib.rs: the prefix trie   *)
(* with owned-copy failure links (TrieNode), the construction of a         *)
(* tokenizer (WordPieceTokenizer::new), the segmenter (basic_tokenize),    *)
(* the matcher (wordpiece_tokenize) and tokenize / encode / decode.        *)
(*                                                                         *)
(* A string is a sequence of characters; a character is an atom such as    *)
(* "a" or "#".  Option<T> is a sequence of length at most one.             *)
(* Positions (start, pos, end) are 0-based as in the source.               *)
(*                                                                         *)
(* A TrieNode is a value: children is a function from characters to        *)
(* TrieNodes and fail_link holds an owned copy (Box<TrieNode>) of the node *)
(* it was set from, as that node was when the copy was taken.  The order   *)
(* in which a HashMap is iterated is unspecified and is chosen freely.     *)
(***************************************************************************)
EXTENDS Integers, Sequences, FiniteSets, TLC

\* ------------------------------------------------------------------ bounds
MaxVocab == 3       \* entries of a vocabulary
MaxWordLen == 5     \* characters of a word handed to find_longest_prefix
MaxTokenLen == 3    \* characters of a coarse token handed to wordpiece_tokenize
MaxTextLen == 3     \* characters of a text handed to tokenize / encode
MaxIds == 3         \* ids handed to decode

\* ------------------------------------------------------------- characters
LowerLetters == {"a", "b", "c", "d", "e", "k", "l", "m", "n", "r", "s", "t", "u", "v"}
UpperLetters == {"A", "B", "K", "N", "S", "U"}
HanChars == {"han"}                       \* one ideograph, \p{Script=Han}
Letters == LowerLetters \cup UpperLetters \cup HanChars \cup {"e_acute"}  \* \p{L}
Digits == {"1"}                           \* \p{N}
Whitespace == {" ", "tab"}                \* char::is_whitespace
Punctuation == {"#", "[", "]", "'", "."}  \* \p{P}
AsciiSymbols == {"<", "$"}                \* ASCII, not \p{P} (Sm, Sc)
AsciiPunctuation == Punctuation \cup AsciiSymbols   \* char::is_ascii_punctuation
AsciiControl == {"tab"}                   \* char::is_ascii_control
Marks == {"acute"}                        \* U+0301, a combining mark (Mn)
Chars == Letters \cup Digits \cup Whitespace \cup AsciiPunctuation \cup Marks

None == <<>>
Some(x) == <<x>>
Max(a, b) == IF a >= b THEN a ELSE b

StartsWith(s, p) == Len(s) >= Len(p) /\ SubSeq(s, 1, Len(p)) = p
Marker == <<"#", "#">>

\* ---------------------------------------------------------------- TrieNode
\* TrieNode::new
TrieNodeNew ==
  [children |-> <<>>, is_word |-> FALSE, token_id |-> -1, max_char_len |-> 0,
   fail_link |-> None]

\* HashMap insert of one key
Put(m, k, v) == [c \in (DOMAIN m) \cup {k} |-> IF c = k THEN v ELSE m[c]]

\* TrieNode::insert, the walk from `node` over the rest of the word
RECURSIVE InsertWalk(_, _, _, _)
InsertWalk(node, rest, word_len, token_id) ==
  LET n1 == [node EXCEPT !.max_char_len = Max(@, word_len)] IN
  IF rest = <<>>
    THEN [n1 EXCEPT !.is_word = TRUE, !.token_id = token_id]
    ELSE LET ch == Head(rest)
             next == IF ch \in DOMAIN n1.children THEN n1.children[ch] ELSE TrieNodeNew
         IN [n1 EXCEPT !.children =
               Put(@, ch, InsertWalk(next, Tail(rest), word_len, token_id))]

insert(root, word, token_id) == InsertWalk(root, word, Len(word), token_id)

\* the node a queue entry (&mut TrieNode) points at, as the path from the root
RECURSIVE NodeAt(_, _)
NodeAt(node, path) ==
  IF path = <<>> THEN node ELSE NodeAt(node.children[Head(path)], Tail(path))

\* child.fail_link = Some(Box::new(f)) for the node at `path`
RECURSIVE SetFail(_, _, _)
SetFail(node, path, f) ==
  IF path = <<>> THEN [node EXCEPT !.fail_link = Some(f)]
  ELSE [node EXCEPT !.children =
          Put(@, Head(path), SetFail(node.children[Head(path)], Tail(path), f))]

\* build_failure_links, the first loop: every child of the root gets a fresh
\* empty node as its failure link
RECURSIVE InitRootChildren(_, _)
InitRootChildren(root, order) ==
  IF order = <<>> THEN root
  ELSE InitRootChildren(SetFail(root, <<Head(order)>>, TrieNodeNew), Tail(order))

\* build_failure_links, the inner while: follow the chain of copies
RECURSIVE ChaseFail(_, _)
ChaseFail(fail, ch) ==
  IF ch \notin DOMAIN fail.children /\ fail.fail_link # None
    THEN ChaseFail(fail.fail_link[1], ch)
    ELSE fail

\* build_failure_links, the node whose copy becomes the child's failure link
FailNode(root, node, ch) ==
  LET fail == ChaseFail(node.fail_link[1], ch) IN
  IF ch \in DOMAIN fail.children THEN fail.children[ch] ELSE root

\* find_longest_prefix, the while loop from (node, pos, last_match)
RECURSIVE FindLoop(_, _, _, _)
FindLoop(node, word, pos, last_match) ==
  IF pos >= Len(word) THEN last_match
  ELSE IF word[pos + 1] \in DOMAIN node.children
    THEN LET next == node.children[word[pos + 1]] IN
         FindLoop(next, word, pos + 1,
                  IF next.is_word THEN Some(<<pos + 1, next.token_id>>) ELSE last_match)
  ELSE IF node.fail_link # None
    THEN FindLoop(node.fail_link[1], word, pos, last_match)
  ELSE last_match

find_longest_prefix(root, word, start) == FindLoop(root, word, start, None)

\* ------------------------------------------------------------ text helpers
\* str::to_lowercase, per character
LowerOf ==
  [c \in Chars |->
     CASE c = "A" -> "a" [] c = "B" -> "b" [] c = "K" -> "k"
       [] c = "N" -> "n" [] c = "S" -> "s" [] c = "U" -> "u"
       [] OTHER -> c]
to_lowercase(s) == [i \in 1..Len(s) |-> LowerOf[s[i]]]

\* canonical decomposition (nfd): the precomposed letter becomes letter + mark
RECURSIVE nfd(_)
nfd(s) ==
  IF s = <<>> THEN <<>>
  ELSE (IF Head(s) = "e_acute" THEN <<"e", "acute">> ELSE <<Head(s)>>) \o nfd(Tail(s))

\* compatibility composition (nfkc): letter + mark becomes the precomposed letter
RECURSIVE nfkc(_)
nfkc(s) ==
  IF s = <<>> THEN <<>>
  ELSE IF Len(s) >= 2 /\ s[1] = "e" /\ s[2] = "acute"
    THEN <<"e_acute">> \o nfkc(SubSeq(s, 3, Len(s)))
  ELSE <<Head(s)>> \o nfkc(Tail(s))

\* the characters of s that are in set S, in order
RECURSIVE Keep(_, _)
Keep(s, S) ==
  IF s = <<>> THEN <<>>
  ELSE (IF Head(s) \in S THEN <<Head(s)>> ELSE <<>>) \o Keep(Tail(s), S)

\* str::trim
RECURSIVE TrimStart(_)
TrimStart(s) == IF s # <<>> /\ Head(s) \in Whitespace THEN TrimStart(Tail(s)) ELSE s
RECURSIVE TrimEnd(_)
TrimEnd(s) ==
  IF s # <<>> /\ s[Len(s)] \in Whitespace THEN TrimEnd(SubSeq(s, 1, Len(s) - 1)) ELSE s
trim(s) == TrimEnd(TrimStart(s))

\* Regex::is_match of \p{P}: some character of s is punctuation
punctuation_is_match(s) == \E i \in 1..Len(s) : s[i] \in Punctuation

\* clean_text: nfkc, every whitespace character to a space, a space on both
\* sides of every Han character
RECURSIVE SpaceHan(_)
SpaceHan(s) ==
  IF s = <<>> THEN <<>>
  ELSE (IF Head(s) \in HanChars THEN <<" ", Head(s), " ">> ELSE <<Head(s)>>)
       \o SpaceHan(Tail(s))
clean_text(text) ==
  LET t1 == nfkc(text)
      t2 == [i \in 1..Len(t1) |-> IF t1[i] \in Whitespace THEN " " ELSE t1[i]]
  IN SpaceHan(t2)

\* strip_accents_if_needed
strip_accents_if_needed(flag, text) ==
  IF ~flag THEN text
  ELSE Keep(nfd(text), Chars \ (AsciiPunctuation \cup AsciiControl))

\* -------------------------------------------- the basic_tokenizer pattern
\* 's|'t|'re|'ve|'m|'ll|'d| ?[\p{L}\p{N}]+| ?[^\s\p{L}\p{N}]+|\s+(?!\S)|\s+
\* (case-insensitive), matched leftmost, the alternatives tried in order.
\* The pattern is modelled by what it denotes, the look-ahead (?!\S) included.
LettersDigits == Letters \cup Digits
OtherChars == Chars \ (Whitespace \cup LettersDigits)
Contractions ==
  << <<"'", "s">>, <<"'", "t">>, <<"'", "r", "e">>, <<"'", "v", "e">>,
     <<"'", "m">>, <<"'", "l", "l">>, <<"'", "d">> >>

\* the length of the run of characters of S in text from (1-based) place i
RECURSIVE RunLen(_, _, _)
RunLen(text, i, S) ==
  IF i <= Len(text) /\ text[i] \in S THEN 1 + RunLen(text, i + 1, S) ELSE 0

ContractionLen(text, i) ==
  LET hits == {k \in 1..Len(Contractions) :
                 /\ i + Len(Contractions[k]) - 1 <= Len(text)
                 /\ to_lowercase(SubSeq(text, i, i + Len(Contractions[k]) - 1))
                      = Contractions[k]}
  IN IF hits = {} THEN 0
     ELSE Len(Contractions[CHOOSE k \in hits : \A j \in hits : k <= j])

\* " ?" followed by a non-empty run of S; 0 when the alternative fails
OptSpaceRun(text, i, S) ==
  LET sp == IF text[i] = " " THEN 1 ELSE 0
      r == RunLen(text, i + sp, S)
  IN IF r > 0 THEN sp + r ELSE 0

\* the length of the match that starts at place i
MatchLen(text, i) ==
  LET k == RunLen(text, i, Whitespace) IN
  IF ContractionLen(text, i) > 0 THEN ContractionLen(text, i)
  ELSE IF OptSpaceRun(text, i, LettersDigits) > 0 THEN OptSpaceRun(text, i, LettersDigits)
  ELSE IF OptSpaceRun(text, i, OtherChars) > 0 THEN OptSpaceRun(text, i, OtherChars)
  ELSE IF i + k > Len(text) THEN k         \* \s+(?!\S), up to the end
  ELSE IF k >= 2 THEN k - 1                \* \s+(?!\S), one space given back
  ELSE k                                   \* \s+

\* Regex::find_iter: the successive matches from place i
RECURSIVE FindIter(_, _)
FindIter(text, i) ==
  IF i > Len(text) THEN <<>>
  ELSE LET n == MatchLen(text, i) IN
       <<SubSeq(text, i, i + n - 1)>> \o FindIter(text, i + n)

\* ----------------------------------------------------------- basic_tokenize
\* "Split on punctuation": the runs of non-punctuation, every punctuation
\* character on its own; `current` is the run being collected
RECURSIVE SplitOnPunctuation(_, _)
SplitOnPunctuation(s, current) ==
  IF s = <<>> THEN (IF current # <<>> THEN <<current>> ELSE <<>>)
  ELSE IF punctuation_is_match(<<Head(s)>>)
    THEN (IF current # <<>> THEN <<current>> ELSE <<>>)
         \o <<<<Head(s)>>>> \o SplitOnPunctuation(Tail(s), <<>>)
  ELSE SplitOnPunctuation(Tail(s), Append(current, Head(s)))

\* the tokens one match of the pattern gives
MatchTokens(specials, lower, strip, mat) ==
  LET token_text == trim(mat) IN
  IF token_text \in DOMAIN specials
    THEN <<[text |-> token_text, id |-> specials[token_text], is_special |-> TRUE]>>
    ELSE LET cased == IF lower THEN to_lowercase(token_text) ELSE token_text
             stripped == strip_accents_if_needed(strip, cased)
             char_tokens == SplitOnPunctuation(stripped, <<>>)
         IN [k \in 1..Len(char_tokens) |->
               [text |-> char_tokens[k], id |-> -1, is_special |-> FALSE]]

RECURSIVE FlattenSeq(_)
FlattenSeq(ss) == IF ss = <<>> THEN <<>> ELSE Head(ss) \o FlattenSeq(Tail(ss))

basic_tokenize(specials, lower, strip, text) ==
  LET mats == FindIter(clean_text(text), 1) IN
  FlattenSeq([k \in 1..Len(mats) |-> MatchTokens(specials, lower, strip, mats[k])])

\* ------------------------------------------------------------------- decode
\* str::replace("##", ""): every occurrence, left to right
RECURSIVE ReplaceMarker(_)
ReplaceMarker(s) ==
  IF s = <<>> THEN <<>>
  ELSE IF StartsWith(s, Marker) THEN ReplaceMarker(SubSeq(s, 3, Len(s)))
  ELSE <<Head(s)>> \o ReplaceMarker(Tail(s))

\* filter_map(|&id| vocab_lookup.get(&id)).map(|t| t.replace("##", ""))
RECURSIVE DecodeTokens(_, _)
DecodeTokens(lookup, ids) ==
  IF ids = <<>> THEN <<>>
  ELSE (IF Head(ids) \in DOMAIN lookup THEN <<ReplaceMarker(lookup[Head(ids)])>> ELSE <<>>)
       \o DecodeTokens(lookup, Tail(ids))

\* (mutant) the joining loop never updates prev_is_punct
RECURSIVE DecodeJoin_StalePrev(_, _, _, _)
DecodeJoin_StalePrev(toks, i, result, prev_is_punct) ==
  IF i > Len(toks) THEN result
  ELSE LET is_punct == punctuation_is_match(toks[i])
           sep == IF i > 1 /\ ~is_punct /\ ~prev_is_punct THEN <<" ">> ELSE <<>>
       IN DecodeJoin_StalePrev(toks, i + 1, result \o sep \o toks[i], prev_is_punct)

\* the joining loop from token i on, with `result` and `prev_is_punct`
RECURSIVE DecodeJoin(_, _, _, _)
DecodeJoin(toks, i, result, prev_is_punct) ==
  IF i > Len(toks) THEN result
  ELSE LET is_punct == punctuation_is_match(toks[i])
           sep == IF i > 1 /\ ~is_punct /\ ~prev_is_punct THEN <<" ">> ELSE <<>>
       IN DecodeJoin(toks, i + 1, result \o sep \o toks[i], is_punct)

decode(lookup, ids) == DecodeJoin(DecodeTokens(lookup, ids), 1, <<>>, FALSE)

\* ------------------------------------------------------------ vocabularies
\* The keys the checked vocabularies are drawn from; the id of a key is its
\* place in this list (id 0 is left free: it is the fallback UNK id).
Universe ==
  << <<"[", "U", "N", "K", "]">>,   \* 1, the unknown token
     <<"a">>,                       \* 2
     <<"b">>,                       \* 3
     <<"a", "b">>,                  \* 4
     <<"b", "a">>,                  \* 5
     <<"#", "#", "b">>,             \* 6, a continuation piece
     <<"#", "#">>,                  \* 7, the bare continuation marker
     <<"#">>,                       \* 8, punctuation
     <<"[", "a", "]">>,             \* 9, a bracketed special token
     <<"a", "#", "#">>,             \* 10, a piece with a trailing marker
     <<"#", "[">>,                  \* 11, two punctuation characters
     <<"#", "#", "a">> >>           \* 12, a continuation piece
Entry(i) == [key |-> Universe[i], id |-> i]
Vocabs(idx, n) == {{Entry(i) : i \in S} : S \in {T \in SUBSET idx : Cardinality(T) <= n}}
UnkToken == Universe[1]

Perms(S) == {f \in [1..Cardinality(S) -> S] : \A i, j \in DOMAIN f : f[i] = f[j] => i = j}
SeqsUpTo(S, n) == UNION {[1..k -> S] : k \in 0..n}

\* ------------------------------------------------------------------- state
VARIABLES
  vocab,                    \* the mapping handed to new (a set of entries)
  pending,                  \* the entries new's loop has not visited yet
  trie, vocab_lookup, special_tokens, unk_token, unk_token_id,
  max_input_chars_per_word, strip_accents, lowercase,
  queue, cur, todo,         \* build_failure_links: the BFS queue, the popped
                            \* node and its children not visited yet
  prev_trie,                \* the trie of the instance built before a rebuild
  pc,                       \* "new", "bfs", "ready", "flat_map", "scan"
  call,                     \* the operation in progress / last returned
  ret,                      \* Some(value returned by the last operation)
  basic_tokens, idx, out,   \* tokenize/encode: coarse tokens, the one the
                            \* flat_map is at, the pieces of those before it
  chars, start, tokens,     \* wordpiece_tokenize's locals
  probes,                   \* the results of the probes of the current scan
  calls                     \* the completed calls of this session

trieVars == <<trie, queue, cur, todo, prev_trie>>
cfgVars == <<vocab, unk_token, max_input_chars_per_word, strip_accents, lowercase>>
newVars == <<pending, vocab_lookup, special_tokens, unk_token_id>>
tokVars == <<basic_tokens, idx, out, chars, start, tokens, probes>>
vars == <<trieVars, cfgVars, newVars, tokVars, pc, call, ret, calls>>

\* the state in which WordPieceTokenizer::new enters its loop over `vocab`
InitWith(vocabs, ceilings, strips, lowers) ==
  /\ vocab \in vocabs
  /\ pending = vocab
  /\ trie = TrieNodeNew
  /\ vocab_lookup = <<>>
  /\ special_tokens = <<>>
  /\ unk_token = UnkToken
  /\ unk_token_id = 0
  /\ max_input_chars_per_word \in ceilings
  /\ strip_accents \in strips
  /\ lowercase \in lowers
  /\ queue = <<>> /\ cur = None /\ todo = {}
  /\ prev_trie = None
  /\ pc = "new"
  /\ call = None /\ ret = None /\ calls = <<>>
  /\ basic_tokens = <<>> /\ idx = 0 /\ out = <<>>
  /\ chars = <<>> /\ start = 0 /\ tokens = <<>> /\ probes = <<>>

\* --------------------------------------------------- WordPieceTokenizer::new
\* "special tokens (those that don't start with ## and contain special chars)"
IsSpecialKey(key) ==
  /\ ~StartsWith(key, Marker)
  /\ \/ StartsWith(key, <<"[">>)
     \/ StartsWith(key, <<"<">>)
     \/ \E i \in 1..Len(key) : key[i] \in Punctuation

\* one pass of the loop over the vocabulary (the mapping's own order is the
\* caller's: any entry not visited yet may come next)
NewEntry ==
  /\ pc = "new"
  /\ \E e \in pending :
       /\ pending' = pending \ {e}
       /\ unk_token_id' = IF e.key = unk_token THEN e.id ELSE unk_token_id
       /\ IF IsSpecialKey(e.key)
            THEN /\ special_tokens' = Put(special_tokens, e.key, e.id)
                 /\ trie' = trie
            ELSE /\ trie' = insert(trie, e.key, e.id)
                 /\ special_tokens' = special_tokens
       /\ vocab_lookup' = Put(vocab_lookup, e.id, e.key)
  /\ UNCHANGED <<queue, cur, todo, prev_trie, cfgVars, tokVars, pc, call, ret, calls>>

\* build_failure_links, "Initialize root's children": the HashMap's iteration
\* order is unspecified, so the queue may hold the children in any order
BuildInit ==
  /\ pc = "new" /\ pending = {}
  /\ \E order \in Perms(DOMAIN trie.children) :
       /\ trie' = InitRootChildren(trie, order)
       /\ queue' = [i \in 1..Len(order) |-> <<order[i]>>]
  /\ cur' = None /\ todo' = {}
  /\ pc' = "bfs"
  /\ UNCHANGED <<prev_trie, cfgVars, newVars, tokVars, call, ret, calls>>

\* build_failure_links, `while let Some(node) = queue.pop_front()`
BuildPop ==
  /\ pc = "bfs" /\ todo = {} /\ queue # <<>>
  /\ cur' = Some(Head(queue))
  /\ queue' = Tail(queue)
  /\ todo' = DOMAIN NodeAt(trie, Head(queue)).children
  /\ UNCHANGED <<trie, prev_trie, cfgVars, newVars, tokVars, pc, call, ret, calls>>

\* build_failure_links, one pass of `for (ch, child) in node.children.iter()`
\* (again in any order): the child's failure link becomes a copy of FailNode
BuildChild ==
  /\ pc = "bfs" /\ todo # {}
  /\ \E ch \in todo :
       LET path == Append(cur[1], ch) IN
       /\ trie' = SetFail(trie, path, FailNode(trie, NodeAt(trie, cur[1]), ch))
       /\ queue' = Append(queue, path)
       /\ todo' = todo \ {ch}
  /\ UNCHANGED <<cur, prev_trie, cfgVars, newVars, tokVars, pc, call, ret, calls>>

\* the queue is empty: build_failure_links returns and new builds the tokenizer
NewReturn ==
  /\ pc = "bfs" /\ todo = {} /\ queue = <<>>
  /\ pc' = "ready"
  /\ cur' = None
  /\ UNCHANGED <<trie, queue, todo, prev_trie, cfgVars, newVars, tokVars, call, ret, calls>>

\* a second instance is constructed from the same vocabulary; the first
\* instance's trie is kept for comparison
Rebuild ==
  /\ pc = "ready" /\ prev_trie = None /\ call = None
  /\ prev_trie' = Some(trie)
  /\ trie' = TrieNodeNew
  /\ pending' = vocab
  /\ vocab_lookup' = <<>> /\ special_tokens' = <<>> /\ unk_token_id' = 0
  /\ pc' = "new"
  /\ UNCHANGED <<queue, cur, todo, cfgVars, tokVars, call, ret, calls>>

\* --------------------------------------------------- calls on a built trie
\* trie.find_longest_prefix(word, start)
Find(word, st) ==
  /\ pc = "ready"
  /\ call' = Some([op |-> "find_longest_prefix", word |-> word, start |-> st])
  /\ ret' = Some(find_longest_prefix(trie, word, st))
  /\ UNCHANGED <<trieVars, cfgVars, newVars, tokVars, pc, calls>>

\* ----------------------------------------- tokenize / encode / decode calls
\* the scan of one coarse token stops being followed once it holds this many
\* pieces (a scan that makes progress never holds more than the token has
\* characters)
MaxPieces == MaxTokenLen + MaxTextLen + 2

UnkTokenValue == [text |-> unk_token, id |-> unk_token_id, is_special |-> TRUE]

\* tokenize / encode: basic_tokenize, then the flat_map over the coarse tokens
CallTokenize(text) ==
  /\ pc = "ready"
  /\ call' = Some([op |-> "tokenize", arg |-> text])
  /\ basic_tokens' = basic_tokenize(special_tokens, lowercase, strip_accents, text)
  /\ idx' = 1 /\ out' = <<>>
  /\ pc' = "flat_map"
  /\ ret' = None
  /\ UNCHANGED <<trieVars, cfgVars, newVars, chars, start, tokens, probes, calls>>

CallEncode(text) ==
  /\ pc = "ready"
  /\ call' = Some([op |-> "encode", arg |-> text])
  /\ basic_tokens' = basic_tokenize(special_tokens, lowercase, strip_accents, text)
  /\ idx' = 1 /\ out' = <<>>
  /\ pc' = "flat_map"
  /\ ret' = None
  /\ UNCHANGED <<trieVars, cfgVars, newVars, chars, start, tokens, probes, calls>>

\* wordpiece_tokenize(token) on its own
CallWordpiece(token) ==
  /\ pc = "ready"
  /\ call' = Some([op |-> "wordpiece_tokenize", arg |-> token])
  /\ basic_tokens' = <<token>>
  /\ idx' = 1 /\ out' = <<>>
  /\ pc' = "flat_map"
  /\ ret' = None
  /\ UNCHANGED <<trieVars, cfgVars, newVars, chars, start, tokens, probes, calls>>

\* wordpiece_tokenize returns `pieces` for the coarse token the flat_map is at
Yield(pieces) ==
  /\ out' = Append(out, pieces)
  /\ idx' = idx + 1
  /\ pc' = "flat_map"

\* wordpiece_tokenize, entry: a protected token is returned as it is
WpSpecial ==
  /\ pc = "flat_map" /\ idx <= Len(basic_tokens)
  /\ basic_tokens[idx].is_special
  /\ Yield(<<basic_tokens[idx]>>)
  /\ UNCHANGED <<trieVars, cfgVars, newVars, basic_tokens, chars, start, tokens, probes,
                 call, ret, calls>>

\* (mutant) the ceiling test lets a token one character over the ceiling pass
TooLong_OffByOne(cs, ceiling) == Len(cs) > ceiling + 1

\* the ceiling test of wordpiece_tokenize
TooLong(cs, ceiling) == Len(cs) > ceiling

\* wordpiece_tokenize, entry: a token longer than the ceiling is one UNK
WpTooLong ==
  /\ pc = "flat_map" /\ idx <= Len(basic_tokens)
  /\ ~basic_tokens[idx].is_special
  /\ TooLong(basic_tokens[idx].text, max_input_chars_per_word)
  /\ Yield(<<UnkTokenValue>>)
  /\ chars' = basic_tokens[idx].text
  /\ UNCHANGED <<trieVars, cfgVars, newVars, basic_tokens, start, tokens, probes,
                 call, ret, calls>>

\* wordpiece_tokenize, entry: the scan starts
WpStart ==
  /\ pc = "flat_map" /\ idx <= Len(basic_tokens)
  /\ ~basic_tokens[idx].is_special
  /\ ~TooLong(basic_tokens[idx].text, max_input_chars_per_word)
  /\ chars' = basic_tokens[idx].text
  /\ start' = 0 /\ tokens' = <<>> /\ probes' = <<>>
  /\ pc' = "scan"
  /\ UNCHANGED <<trieVars, cfgVars, newVars, basic_tokens, idx, out, call, ret, calls>>

\* the string a probe runs on: the token at start 0, "##" + the rest after
WordChars(cs, st) ==
  IF st = 0 THEN cs ELSE <<"#", "#">> \o SubSeq(cs, st + 1, Len(cs))

Probe == find_longest_prefix(trie, WordChars(chars, start), 0)

\* `start += if start == 0 { len } else { len - 2 }`
Advance(st, len) == st + (IF st = 0 THEN len ELSE len - 2)

\* (mutant) the pieces matched before the failing probe are kept
ScanResult_KeepsPartial(is_bad, toks, unk) == IF is_bad THEN Append(toks, unk) ELSE toks

\* what wordpiece_tokenize returns after the scan
ScanResult(is_bad, toks, unk) == IF is_bad THEN <<unk>> ELSE toks

\* one pass of the scan loop, the probe matches: the piece is pushed and the
\* scan position advanced
ScanHit ==
  /\ pc = "scan" /\ start < Len(chars)
  /\ Probe # None
  /\ Len(tokens) < MaxPieces
  /\ LET len == Probe[1][1]
         token_id == Probe[1][2]
     IN /\ tokens' = Append(tokens, [text |-> vocab_lookup[token_id], id |-> token_id,
                                     is_special |-> FALSE])
        /\ start' = Advance(start, len)
  /\ probes' = Append(probes, Probe)
  /\ UNCHANGED <<trieVars, cfgVars, newVars, basic_tokens, idx, out, chars, pc,
                 call, ret, calls>>

\* one pass of the scan loop, the probe fails: is_bad, break, return
ScanMiss ==
  /\ pc = "scan" /\ start < Len(chars)
  /\ Probe = None
  /\ probes' = Append(probes, Probe)
  /\ Yield(ScanResult(TRUE, tokens, UnkTokenValue))
  /\ UNCHANGED <<trieVars, cfgVars, newVars, basic_tokens, chars, start, tokens,
                 call, ret, calls>>

\* the scan loop ends with the token consumed
ScanEnd ==
  /\ pc = "scan" /\ start >= Len(chars)
  /\ Yield(ScanResult(FALSE, tokens, UnkTokenValue))
  /\ UNCHANGED <<trieVars, cfgVars, newVars, basic_tokens, chars, start, tokens, probes,
                 call, ret, calls>>

\* .map(|token| token.text) / .map(|token| token.id) / the Vec<Token> itself
Project(op, toks) ==
  IF op = "tokenize" THEN [k \in 1..Len(toks) |-> toks[k].text]
  ELSE IF op = "encode" THEN [k \in 1..Len(toks) |-> toks[k].id]
  ELSE toks

\* collect(): the call returns
Collect ==
  /\ pc = "flat_map" /\ idx > Len(basic_tokens)
  /\ ret' = Some(Project(call[1].op, FlattenSeq(out)))
  /\ calls' = Append(calls, [op |-> call[1].op, arg |-> call[1].arg,
                             ret |-> Project(call[1].op, FlattenSeq(out))])
  /\ pc' = "ready"
  /\ UNCHANGED <<trieVars, cfgVars, newVars, tokVars, call>>

\* decode(ids)
CallDecode(ids) ==
  /\ pc = "ready"
  /\ call' = Some([op |-> "decode", arg |-> ids])
  /\ ret' = Some(decode(vocab_lookup, ids))
  /\ calls' = Append(calls, [op |-> "decode", arg |-> ids,
                             ret |-> decode(vocab_lookup, ids)])
  /\ UNCHANGED <<trieVars, cfgVars, newVars, tokVars, pc>>

\* ---------------------------------------------------------- specifications
TrieKeys == {2, 3, 4, 5}
TrieAlphabet == {"a", "b"}
Words == SeqsUpTo(TrieAlphabet, MaxWordLen)

InitTrie == InitWith(Vocabs(TrieKeys, MaxVocab), {MaxWordLen}, {TRUE}, {TRUE})
NextTrie ==
  \/ NewEntry \/ BuildInit \/ BuildPop \/ BuildChild \/ NewReturn
  \/ Rebuild
  \/ \E w \in Words : \E s \in 0..Len(w) : call = None /\ Find(w, s)
SpecTrie == InitTrie /\ [][NextTrie]_vars

\* wordpiece_tokenize on one coarse token
MatcherKeys == {1, 2, 3, 4, 6, 7, 8}
TokenAlphabet == {"a", "b"}
\* the tokens basic_tokenize can hand over: a run of letters, a protected
\* special token
CoarseTokens ==
  {[text |-> t, id |-> -1, is_special |-> FALSE] :
     t \in SeqsUpTo(TokenAlphabet, MaxTokenLen) \ {<<>>}}
  \cup {[text |-> k, id |-> special_tokens[k], is_special |-> TRUE] :
          k \in DOMAIN special_tokens}

InitMatcher ==
  InitWith(Vocabs(MatcherKeys, MaxVocab), {0, MaxTokenLen - 1, MaxTokenLen}, {TRUE}, {TRUE})
NextMatcher ==
  \/ NewEntry \/ BuildInit \/ BuildPop \/ BuildChild \/ NewReturn
  \/ \E t \in CoarseTokens : calls = <<>> /\ call = None /\ CallWordpiece(t)
  \/ WpSpecial \/ WpTooLong \/ WpStart \/ ScanHit \/ ScanMiss \/ ScanEnd \/ Collect
SpecMatcher == InitMatcher /\ [][NextMatcher]_vars

\* encode of the vocabulary's own keys, with a ceiling of one character and
\* one no key is over
OwnKeys == {1, 2, 4, 6, 8, 9}
InitKeys == InitWith(Vocabs(OwnKeys, MaxVocab), {1, Len(UnkToken)}, BOOLEAN, BOOLEAN)
NextKeys ==
  \/ NewEntry \/ BuildInit \/ BuildPop \/ BuildChild \/ NewReturn
  \/ \E e \in vocab : calls = <<>> /\ call = None /\ CallEncode(e.key)
  \/ WpSpecial \/ WpTooLong \/ WpStart \/ ScanHit \/ ScanMiss \/ ScanEnd \/ Collect
SpecKeys == InitKeys /\ [][NextKeys]_vars

\* tokenize of short texts, with small ceilings
MaxTextVocab == 2
TextKeys == {2, 7, 8, 11, 12}
TextAlphabet == {"a", "#", "[", " "}
Texts == SeqsUpTo(TextAlphabet, MaxTextLen)
InitText ==
  InitWith(Vocabs(TextKeys, MaxTextVocab), 0..(MaxTextLen - 1), BOOLEAN, {TRUE})
NextText ==
  \/ NewEntry \/ BuildInit \/ BuildPop \/ BuildChild \/ NewReturn
  \/ \E t \in Texts : calls = <<>> /\ call = None /\ CallTokenize(t)
  \/ WpSpecial \/ WpTooLong \/ WpStart \/ ScanHit \/ ScanMiss \/ ScanEnd \/ Collect
SpecText == InitText /\ [][NextText]_vars

\* encode, decode of the ids, encode of the decoded text
\* (the defaults: accents stripped, lowercased; the unknown token is a key)
RoundKeys == {2, 3, 8, 12}
RoundAlphabet == {"a", "b", "#", " "}
RoundTexts == SeqsUpTo(RoundAlphabet, MaxTextLen)
InitRound ==
  InitWith({v \cup {Entry(1)} : v \in Vocabs(RoundKeys, MaxVocab)},
           {MaxTextLen - 1, MaxTextLen}, {TRUE}, {TRUE})
NextRound ==
  \/ NewEntry \/ BuildInit \/ BuildPop \/ BuildChild \/ NewReturn
  \/ \E t \in RoundTexts : calls = <<>> /\ call = None /\ CallEncode(t)
  \/ Len(calls) = 1 /\ CallDecode(calls[1].ret)
  \/ Len(calls) = 2 /\ call[1].op = "decode" /\ CallEncode(calls[2].ret)
  \/ WpSpecial \/ WpTooLong \/ WpStart \/ ScanHit \/ ScanMiss \/ ScanEnd \/ Collect
SpecRound == InitRound /\ [][NextRound]_vars

\* decode of short id sequences, id 0 being no id of the vocabulary
DecodeKeys == {2, 6, 7, 8, 10}
IdSeqs == SeqsUpTo(DecodeKeys \cup {0}, MaxIds)
InitDecode == InitWith(Vocabs(DecodeKeys, MaxVocab), {MaxTextLen}, {TRUE}, {TRUE})
NextDecode ==
  \/ NewEntry \/ BuildInit \/ BuildPop \/ BuildChild \/ NewReturn
  \/ \E ids \in IdSeqs : calls = <<>> /\ CallDecode(ids)
SpecDecode == InitDecode /\ [][NextDecode]_vars

\* ------------------------------------------------------------------ claims
\* the vocabulary entries new inserts into the trie
TrieEntries == {e \in vocab : ~IsSpecialKey(e.key)}

\* the longest entry that is a prefix of word[start..], as Some(<<end, id>>)
LongestPrefixEntry(entries, word, st) ==
  LET fits == {e \in entries : /\ st + Len(e.key) <= Len(word)
                               /\ SubSeq(word, st + 1, st + Len(e.key)) = e.key}
  IN IF fits = {} THEN None
     ELSE LET best == CHOOSE e \in fits : \A f \in fits : Len(f.key) <= Len(e.key)
          IN Some(<<st + Len(best.key), best.id>>)

FindReturned == pc = "ready" /\ call # None /\ call[1].op = "find_longest_prefix"

\* C1: find_longest_prefix(word, start) returns the longest prefix of
\* word[start..] that is a complete vocabulary entry, with its id, and none
\* exactly when no prefix is an entry.
C1_LongestPrefix ==
  FindReturned =>
    ret[1] = LongestPrefixEntry(TrieEntries, call[1].word, call[1].start)

\* the paths of the nodes below `node`
RECURSIVE NodePaths(_)
NodePaths(node) ==
  {<<>>} \cup UNION {{<<ch>> \o p : p \in NodePaths(node.children[ch])} :
                      ch \in DOMAIN node.children}

\* a node without the failure links in it: what identifies the node a copy
\* was taken of
RECURSIVE Shape(_)
Shape(node) ==
  [children |-> [ch \in DOMAIN node.children |-> Shape(node.children[ch])],
   is_word |-> node.is_word, token_id |-> node.token_id,
   max_char_len |-> node.max_char_len]

\* the longest proper suffix of `path` that is a node of the trie (the root
\* when only the empty one is)
LongestSuffixPath(root, path) ==
  LET sufs == {SubSeq(path, k, Len(path)) : k \in 2..(Len(path) + 1)} \cap NodePaths(root)
  IN CHOOSE q \in sufs : \A r \in sufs : Len(r) <= Len(q)

\* C9: after build_failure_links every non-root node's failure link is the
\* node of the longest proper suffix of its prefix that is in the trie (the
\* root when there is none).
C9_AhoCorasickLinks ==
  pc = "ready" =>
    \A p \in NodePaths(trie) \ {<<>>} :
      /\ NodeAt(trie, p).fail_link # None
      /\ Shape(NodeAt(trie, p).fail_link[1]) = Shape(NodeAt(trie, LongestSuffixPath(trie, p)))

\* C6: two tries built from the same vocabulary (the entries inserted in any
\* two orders) answer find_longest_prefix alike for every word and start.
C6_OrderIndependent ==
  (pc = "ready" /\ prev_trie # None) =>
    \A w \in Words : \A s \in 0..Len(w) :
      find_longest_prefix(trie, w, s) = find_longest_prefix(prev_trie[1], w, s)

\* ------------------------------------------------- claims about the matcher
\* wordpiece_tokenize has returned for the coarse token before place idx, a
\* non-protected token within the ceiling (so the scan ran on it)
Scanned ==
  /\ pc \in {"flat_map", "ready"} /\ idx > 1
  /\ ~basic_tokens[idx - 1].is_special
  /\ ~(Len(basic_tokens[idx - 1].text) > max_input_chars_per_word)

\* reference WordPiece on the characters cs from place st: Some(the entries
\* matched), or None when some place has no entry
RECURSIVE RefScan(_, _, _)
RefScan(entries, cs, st) ==
  IF st >= Len(cs) THEN Some(<<>>)
  ELSE LET fits == {e \in entries : \E n \in 1..(Len(cs) - st) :
                      e.key = (IF st = 0 THEN <<>> ELSE Marker) \o SubSeq(cs, st + 1, st + n)}
       IN IF fits = {} THEN None
          ELSE LET best == CHOOSE e \in fits : \A f \in fits : Len(f.key) <= Len(e.key)
                   n == Len(best.key) - (IF st = 0 THEN 0 ELSE 2)
                   rest == RefScan(entries, cs, st + n)
               IN IF rest = None THEN None ELSE Some(<<best>> \o rest[1])

\* the id of the unknown token: its vocabulary id, 0 when it is no key
RefUnkId == IF \E e \in vocab : e.key = UnkToken
              THEN (CHOOSE e \in vocab : e.key = UnkToken).id ELSE 0
RefUnk == [text |-> UnkToken, id |-> RefUnkId, is_special |-> TRUE]

RefWordpiece(entries, cs) ==
  LET r == RefScan(entries, cs, 0) IN
  IF r = None THEN <<RefUnk>>
  ELSE [k \in 1..Len(r[1]) |-> [text |-> r[1][k].key, id |-> r[1][k].id, is_special |-> FALSE]]

\* C2: for a non-protected coarse token within the ceiling wordpiece_tokenize
\* returns what reference WordPiece returns: greedy longest match first, the
\* later pieces "##"-prefixed, one UNK when some place has no entry.
C2_ReferenceWordPiece ==
  Scanned => out[idx - 1] = RefWordpiece(vocab, basic_tokens[idx - 1].text)

\* C3: when a probe of the scan of a coarse token returns no match,
\* wordpiece_tokenize returns exactly the UNK token with the UNK id, whatever
\* the earlier probes matched.
C3_AllOrNothing ==
  (Scanned /\ \E i \in 1..Len(probes) : probes[i] = None) => out[idx - 1] = <<RefUnk>>

\* a scan whose first probe matched and whose second did not, returned
C3_Witness ==
  /\ Scanned /\ Len(probes) >= 2
  /\ probes[1] # None /\ probes[Len(probes)] = None
  /\ out[idx - 1] = <<RefUnk>>

\* C10: every successful probe advances the scan position by at least one
\* character and never past the end of the token.
C10_ScanProgress ==
  [][ScanHit => (start' > start /\ start' <= Len(chars))]_vars

\* ------------------------------------- claims about tokenize, encode, decode
Returned(op) == pc = "ready" /\ call # None /\ call[1].op = op

\* C4: encode of the text of a vocabulary entry (word-initial, continuation
\* or special) returns exactly the one-element sequence of the entry's id
\* (stated here for the entries that are not over the ceiling).
C4_EncodeOwnKey ==
  Returned("encode") =>
    \A e \in vocab :
      (e.key = call[1].arg /\ Len(e.key) <= max_input_chars_per_word) => ret[1] = <<e.id>>

\* a piece without its leading continuation marker
StripLeadingMarker(s) == IF StartsWith(s, Marker) THEN SubSeq(s, 3, Len(s)) ELSE s

\* a punctuation token: its text, the marker aside, is punctuation characters
IsPunctuationToken(text) ==
  LET t == StripLeadingMarker(text) IN
  t # <<>> /\ \A i \in 1..Len(t) : t[i] \in Punctuation

\* the ids of ids whose token is no punctuation token, in order (the UNK id
\* stands for the unknown token also when that is no vocabulary key)
RECURSIVE NonPunctuationIds(_)
NonPunctuationIds(ids) ==
  IF ids = <<>> THEN <<>>
  ELSE LET text == IF Head(ids) \in DOMAIN vocab_lookup THEN vocab_lookup[Head(ids)]
                   ELSE unk_token
       IN (IF IsPunctuationToken(text) THEN <<>> ELSE <<Head(ids)>>)
          \o NonPunctuationIds(Tail(ids))

\* C5: encode(decode(encode(t))) holds the same non-punctuation token ids in
\* the same order as encode(t).
C5_RoundTrip ==
  (Len(calls) = 3 /\ calls[1].op = "encode" /\ calls[2].op = "decode"
     /\ calls[2].arg = calls[1].ret /\ calls[3].op = "encode"
     /\ calls[3].arg = calls[2].ret)
  => NonPunctuationIds(calls[3].ret) = NonPunctuationIds(calls[1].ret)

\* what each coarse token contributes to the output of tokenize
PerTokenBound ==
  \A i \in 1..Len(basic_tokens) :
    LET t == basic_tokens[i] IN
    /\ t.is_special => out[i] = <<t>>
    /\ (~t.is_special /\ Len(t.text) > max_input_chars_per_word) => out[i] = <<RefUnk>>
    /\ (~t.is_special /\ Len(t.text) <= max_input_chars_per_word)
         => Len(out[i]) <= Len(t.text)

\* C7 as stated: tokenize returns at most (coarse tokens) x (ceiling) tokens,
\* a coarse token longer than the ceiling contributing exactly one UNK token
\* and one within the ceiling at most as many pieces as it has characters.
C7_LengthBound_Stated ==
  Returned("tokenize") =>
    /\ Len(ret[1]) <= Len(basic_tokens) * max_input_chars_per_word
    /\ \A i \in 1..Len(basic_tokens) :
         /\ Len(basic_tokens[i].text) > max_input_chars_per_word => out[i] = <<RefUnk>>
         /\ Len(basic_tokens[i].text) <= max_input_chars_per_word
              => Len(out[i]) <= Len(basic_tokens[i].text)

\* C7, amended: with a ceiling of at least 1, tokenize returns at most
\* (coarse tokens) x (ceiling) tokens; with any ceiling a protected coarse
\* token contributes itself, a non-protected one longer than the ceiling
\* exactly one UNK token, and a non-protected one within the ceiling at most
\* as many pieces as it has characters.
C7_LengthBound ==
  Returned("tokenize") =>
    /\ max_input_chars_per_word >= 1
         => Len(ret[1]) <= Len(basic_tokens) * max_input_chars_per_word
    /\ PerTokenBound

\* tokenize returned, the ceiling at least 1: one coarse token was over the
\* ceiling and became UNK, another gave a piece of its own
C7_Witness ==
  /\ Returned("tokenize") /\ max_input_chars_per_word >= 1
  /\ \E i, j \in 1..Len(basic_tokens) :
       /\ ~basic_tokens[i].is_special
       /\ Len(basic_tokens[i].text) > max_input_chars_per_word
       /\ out[i] = <<RefUnk>>
       /\ Len(out[j]) >= 1 /\ out[j] # <<RefUnk>>

\* the reference decoding: the ids of the vocabulary, each mapped to its
\* string stripped by `strip`, joined with a space between two neighbours
\* unless one of them is punctuation (holds a punctuation character)
RefPieces(ids, strip(_)) ==
  LET known == SelectSeq(ids, LAMBDA id : \E e \in vocab : e.id = id)
  IN [k \in 1..Len(known) |-> strip((CHOOSE e \in vocab : e.id = known[k]).key)]

RECURSIVE RefJoin(_)
RefJoin(pieces) ==
  IF pieces = <<>> THEN <<>>
  ELSE IF Len(pieces) = 1 THEN pieces[1]
  ELSE LET n == Len(pieces)
           glued == \/ \E i \in 1..Len(pieces[n]) : pieces[n][i] \in Punctuation
                    \/ \E i \in 1..Len(pieces[n - 1]) : pieces[n - 1][i] \in Punctuation
       IN RefJoin(SubSeq(pieces, 1, n - 1)) \o (IF glued THEN <<>> ELSE <<" ">>) \o pieces[n]

\* every "##" of s removed, left to right
RECURSIVE WithoutMarkers(_)
WithoutMarkers(s) ==
  IF Len(s) < 2 THEN s
  ELSE IF s[1] = "#" /\ s[2] = "#" THEN WithoutMarkers(SubSeq(s, 3, Len(s)))
  ELSE <<s[1]>> \o WithoutMarkers(SubSeq(s, 2, Len(s)))

====
